---------------------------- MODULE Spec2Model ----------------------------
(***************************************************************************)
(* Image Archive -- Conceptual Network (src/script.js).                    *)
(*                                                                         *)
(* Strings are sequences of character codes (ASCII), so that join() and    *)
(* localeCompare() are computed rather than assumed.  Only the space, the  *)
(* comma and lowercase letters occur, for which the collation order of     *)
(* localeCompare is the order of the codes:                                *)
(*   32 ' '   44 ','   107 'k'  108 'l'  109 'm'                           *)
(*   112 'p'  113 'q'  114 'r'  115 's'  116 't'                           *)
(*   120 'x'  121 'y'  122 'z'                                             *)
(* The empty string is <<>>; it is the only falsy string.                  *)
(***************************************************************************)
EXTENDS Integers, Sequences, FiniteSets, TLC

\* -------------------------------------------------------------------------
\* Bounds of the model
\* -------------------------------------------------------------------------
\* longest item list handed to the pure functions in PureSpec
MaxItems == 3

\* -------------------------------------------------------------------------
\* JavaScript values
\* -------------------------------------------------------------------------
EmptyStr == <<>>

\* truthiness of a string value: !s is true exactly for ""
Truthy(s) == s # EmptyStr

\* a || b on strings
OrElse(a, b) == IF Truthy(a) THEN a ELSE b

\* arr.includes(t)
Includes(arr, t) == \E i \in DOMAIN arr : arr[i] = t

\* arr.join(sep)
RECURSIVE Join(_, _)
Join(arr, sep) ==
  IF arr = <<>> THEN EmptyStr
  ELSE IF Len(arr) = 1 THEN arr[1]
  ELSE arr[1] \o sep \o Join(Tail(arr), sep)

\* s.localeCompare(t): -1, 0 or 1
RECURSIVE localeCompare(_, _)
localeCompare(s, t) ==
  IF s = <<>> /\ t = <<>> THEN 0
  ELSE IF s = <<>> THEN -1
  ELSE IF t = <<>> THEN 1
  ELSE IF Head(s) < Head(t) THEN -1
  ELSE IF Head(s) > Head(t) THEN 1
  ELSE localeCompare(Tail(s), Tail(t))

\* -------------------------------------------------------------------------
\* Data: build links from shared theme or mood
\* -------------------------------------------------------------------------
MutShareThemesOnly(a, b) ==
  \E i \in DOMAIN a.themes : Includes(b.themes, a.themes[i])

nodesShareConnection(a, b) ==
  LET sharedTheme == \E i \in DOMAIN a.themes : Includes(b.themes, a.themes[i])
      sharedMood  == \E i \in DOMAIN a.moods : Includes(b.moods, a.moods[i])
  IN  sharedTheme \/ sharedMood

\* a link endpoint: the id string as pushed by buildLinks (obj = FALSE), or
\* the node object with that id once d3.forceLink has bound the link
\* (obj = TRUE)
IdEnd(id) == [obj |-> FALSE, id |-> id]
ObjEnd(node) == [obj |-> TRUE, node |-> node]

\* an inner loop that starts at the first item on every row
RECURSIVE MutLinksEveryOrder(_, _, _)
MutLinksEveryOrder(nodes, i, j) ==
  IF i > Len(nodes) THEN <<>>
  ELSE IF j > Len(nodes) THEN MutLinksEveryOrder(nodes, i + 1, 1)
  ELSE (IF i # j /\ nodesShareConnection(nodes[i], nodes[j])
        THEN <<[source |-> IdEnd(nodes[i].id), target |-> IdEnd(nodes[j].id)]>>
        ELSE <<>>)
       \o MutLinksEveryOrder(nodes, i, j + 1)

\* the loops of buildLinks, from the pair (i, j) on
RECURSIVE buildLinksFrom(_, _, _)
buildLinksFrom(nodes, i, j) ==
  IF i > Len(nodes) THEN <<>>
  ELSE IF j > Len(nodes) THEN buildLinksFrom(nodes, i + 1, i + 2)
  ELSE (IF nodesShareConnection(nodes[i], nodes[j])
        THEN <<[source |-> IdEnd(nodes[i].id), target |-> IdEnd(nodes[j].id)]>>
        ELSE <<>>)
       \o buildLinksFrom(nodes, i, j + 1)

buildLinks(nodes) == buildLinksFrom(nodes, 1, 2)

\* -------------------------------------------------------------------------
\* Theme filter and ordering
\* -------------------------------------------------------------------------
\* a filter that also matches the moods
RECURSIVE MutFilterThemeOrMood(_, _)
MutFilterThemeOrMood(nodes, theme) ==
  IF nodes = <<>> THEN <<>>
  ELSE (IF Includes(Head(nodes).themes, theme) \/ Includes(Head(nodes).moods, theme)
        THEN <<Head(nodes)>> ELSE <<>>)
       \o MutFilterThemeOrMood(Tail(nodes), theme)

\* nodes.filter((n) => n.themes.includes(theme)) keeps the order
RECURSIVE FilterByTheme(_, _)
FilterByTheme(nodes, theme) ==
  IF nodes = <<>> THEN <<>>
  ELSE (IF Includes(Head(nodes).themes, theme) THEN <<Head(nodes)>> ELSE <<>>)
       \o FilterByTheme(Tail(nodes), theme)

\* ret: the returned array; same: the returned array is the argument itself
\* (no copy is made when no theme is given)
applyThemeFilter(nodes, theme) ==
  IF ~Truthy(theme) THEN [ret |-> nodes, same |-> TRUE]
  ELSE [ret |-> FilterByTheme(nodes, theme), same |-> FALSE]

\* the comparator handed to Array.prototype.sort
MutCompareNameOnly(a, b, tag) ==
  localeCompare(OrElse(a.name, a.id), OrElse(b.name, b.id))

\* with a tag, ties within a bucket broken by the id
MutCompareTagById(a, b, tag) ==
  IF ~Truthy(tag)
  THEN localeCompare(OrElse(a.name, a.id), OrElse(b.name, b.id))
  ELSE LET aHas == Includes(a.themes, tag)
           bHas == Includes(b.themes, tag)
       IN  IF aHas /\ ~bHas THEN -1
           ELSE IF ~aHas /\ bHas THEN 1
           ELSE localeCompare(a.id, b.id)

compareNodes(a, b, tag) ==
  IF ~Truthy(tag)
  THEN localeCompare(OrElse(a.name, a.id), OrElse(b.name, b.id))
  ELSE LET aHas == Includes(a.themes, tag)
           bHas == Includes(b.themes, tag)
       IN  IF aHas /\ ~bHas THEN -1
           ELSE IF ~aHas /\ bHas THEN 1
           ELSE localeCompare(OrElse(a.name, a.id), OrElse(b.name, b.id))

\* Array.prototype.sort is stable: an element goes after every element that
\* does not compare greater than it
RECURSIVE InsertSorted(_, _, _)
InsertSorted(sorted, n, tag) ==
  IF sorted = <<>> THEN <<n>>
  ELSE IF compareNodes(Head(sorted), n, tag) <= 0
       THEN <<Head(sorted)>> \o InsertSorted(Tail(sorted), n, tag)
       ELSE <<n>> \o sorted

RECURSIVE ArraySort(_, _)
ArraySort(list, tag) ==
  IF list = <<>> THEN <<>>
  ELSE InsertSorted(ArraySort(SubSeq(list, 1, Len(list) - 1), tag), list[Len(list)], tag)

\* ret: the returned array; arg: the argument array after the call
sortNodesByTag(nodes, tag) ==
  LET list == nodes
  IN  [ret |-> ArraySort(list, tag), arg |-> nodes]

\* -------------------------------------------------------------------------
\* Fetch data: the normalisation of one entry of raw.nodes
\* -------------------------------------------------------------------------
\* a raw entry: id, name ("" when absent), themes and moods, each
\* [isArray, arr, str]: an array arr (isArray = TRUE), or else the string
\* str found in its place, "" standing for an omitted field (both falsy)
\* d.themes || [] as an argument of concat: what it adds to the array
ConcatArg(f) ==
  IF f.isArray THEN f.arr ELSE IF Truthy(f.str) THEN <<f.str>> ELSE <<>>

\* a default that keeps whatever is there
MutArrayOrValue(f) == ConcatArg(f)

\* Array.isArray(d.themes) ? d.themes : []
ArrayOrEmpty(f) == IF f.isArray THEN f.arr ELSE <<>>

normaliseNode(d) ==
  [id     |-> d.id,
   name   |-> OrElse(d.name, Join(ConcatArg(d.themes) \o ConcatArg(d.moods), <<44, 32>>)),
   themes |-> ArrayOrEmpty(d.themes),
   moods  |-> ArrayOrEmpty(d.moods)]

RECURSIVE MapNormalise(_)
MapNormalise(rawNodes) ==
  IF rawNodes = <<>> THEN <<>>
  ELSE <<normaliseNode(Head(rawNodes))>> \o MapNormalise(Tail(rawNodes))

\* -------------------------------------------------------------------------
\* Config
\* -------------------------------------------------------------------------
\* scales and opacities in tenths
hoverScale == 14
connectedScale == 11
unrelatedOpacity == 3
fullOpacity == 10
unitScale == 10
lineColor == "#3A86FF"
lineColorHover == "#6ba3ff"

\* Number(y * CONFIG.parallaxFactor), the factor in hundredths
parallaxFactor == 12
parallaxDrift(y) == (y * parallaxFactor) \div 100

\* simulation temperature in tenths: alphaTarget(0.3), alpha(0.3); a new
\* simulation starts at alpha 1 with alphaTarget 0
alphaDrag == 3
alphaResize == 3
alphaStart == 10

\* null for a number (d.fx = null) and for an attribute never set
NullNum == -1

\* null for hoveredNodeId; falsy like ""
NullId == <<0>>

TruthyId(id) == id # NullId /\ id # EmptyStr

\* -------------------------------------------------------------------------
\* Environment: the documents data.json may hold, the viewport, the pointer
\* -------------------------------------------------------------------------
Arr(a) == [isArray |-> TRUE, arr |-> a, str |-> EmptyStr]
Omitted == [isArray |-> FALSE, arr |-> <<>>, str |-> EmptyStr]
\* a string where an array is expected: "themes": "x"
Str(v) == [isArray |-> FALSE, arr |-> <<>>, str |-> v]

\* the ids "p", "q", "r", "s" in document order
IdOf(i) == <<111 + i>>

\* p{x}  q{x,y}  r{y}  s{z}: no names, no moods
DocScenario ==
  << [id |-> IdOf(1), name |-> EmptyStr, themes |-> Arr(<< <<120>> >>), moods |-> Omitted],
     [id |-> IdOf(2), name |-> EmptyStr, themes |-> Arr(<< <<120>>, <<121>> >>), moods |-> Omitted],
     [id |-> IdOf(3), name |-> EmptyStr, themes |-> Arr(<< <<121>> >>), moods |-> Omitted],
     [id |-> IdOf(4), name |-> EmptyStr, themes |-> Arr(<< <<122>> >>), moods |-> Omitted] >>

\* p named "l" with mood m only; q named "k" with theme x and mood m;
\* r with no name and no tags at all
DocMoods ==
  << [id |-> IdOf(1), name |-> <<108>>, themes |-> Omitted, moods |-> Arr(<< <<109>> >>)],
     [id |-> IdOf(2), name |-> <<107>>, themes |-> Arr(<< <<120>> >>), moods |-> Arr(<< <<109>> >>)],
     [id |-> IdOf(3), name |-> EmptyStr, themes |-> Arr(<<>>), moods |-> Omitted] >>

\* p with theme m, q with mood m and theme x, r with themes x and m
DocThemeMood ==
  << [id |-> IdOf(1), name |-> EmptyStr, themes |-> Arr(<< <<109>> >>), moods |-> Arr(<<>>)],
     [id |-> IdOf(2), name |-> EmptyStr, themes |-> Arr(<< <<120>> >>), moods |-> Arr(<< <<109>> >>)],
     [id |-> IdOf(3), name |-> <<107>>, themes |-> Arr(<< <<120>>, <<109>> >>), moods |-> Omitted] >>

\* p with theme x and mood m, q with mood m only
DocPair ==
  << [id |-> IdOf(1), name |-> EmptyStr, themes |-> Arr(<< <<120>> >>), moods |-> Arr(<< <<109>> >>)],
     [id |-> IdOf(2), name |-> EmptyStr, themes |-> Omitted, moods |-> Arr(<< <<109>> >>)] >>

\* p with the string "x" for themes and mood m, q with theme x and moods the
\* string "m", r with themes omitted and mood m
DocNotArray ==
  << [id |-> IdOf(1), name |-> EmptyStr, themes |-> Str(<<120>>), moods |-> Arr(<< <<109>> >>)],
     [id |-> IdOf(2), name |-> EmptyStr, themes |-> Arr(<< <<120>> >>), moods |-> Str(<<109>>)],
     [id |-> IdOf(3), name |-> EmptyStr, themes |-> Omitted, moods |-> Arr(<< <<109>> >>)] >>

\* p and q with themes x, y and mood m each, r with theme y
DocShared ==
  << [id |-> IdOf(1), name |-> EmptyStr, themes |-> Arr(<< <<120>>, <<121>> >>), moods |-> Arr(<< <<109>> >>)],
     [id |-> IdOf(2), name |-> <<107>>, themes |-> Arr(<< <<120>>, <<121>> >>), moods |-> Arr(<< <<109>> >>)],
     [id |-> IdOf(3), name |-> EmptyStr, themes |-> Arr(<< <<121>> >>), moods |-> Omitted] >>

Documents == {DocScenario, DocMoods, DocThemeMood, DocPair, DocNotArray, DocShared}

\* the filter buttons offered with DocPair
PairThemes == {EmptyStr, <<120>>}

\* the values of the data-theme attributes of the filter buttons; "" is the
\* button without the attribute
FilterThemes == {EmptyStr, <<120>>, <<121>>, <<109>>}

\* window.scrollY
ScrollYs == {0, 100}

\* getBoundingClientRect() of the graph wrapper
Viewports == {[width |-> 0, height |-> 0], [width |-> 1000, height |-> 900]}

\* the points the pointer and the forces may move a node to
Points == {[x |-> 0, y |-> 1], [x |-> 1, y |-> 0]}

\* most simulations ever constructed (the one of the load and one per
\* filter click)
MaxSims == 3

\* most drag gestures in progress at once (mouse, touches)
MaxDrags == 1

\* the same where several pointers are followed (TouchSpec)
MaxPointers == 2

\* -------------------------------------------------------------------------
\* State
\* -------------------------------------------------------------------------
VARIABLES
  phase,              \* init(): "boot" until loadData settles, then "ready" or "failed"
  raw,                \* raw.nodes of the document that was fetched
  fullNodes,          \* let fullNodes
  graphData,          \* let graphData = {nodes, links}
  simulation,         \* let simulation: 0 for null, else the number of a simulation
  activeThemeFilter,  \* let activeThemeFilter
  hoveredNodeId,      \* let hoveredNodeId
  layout,             \* the layout fields x, y, fx, fy of each node object, by id
  sims,               \* the simulations, by number: the current one and any other
                      \* whose timer still runs (a stopped simulation that nothing
                      \* refers to any more is garbage and is dropped)
  svg,                \* size of graphSvg and whether it holds a graph-container
  nodeEls,            \* the g.node elements of the container
  linkEls,            \* the line.link elements of the container
  errorShown,         \* the failure message replaced the content of graphWrapper
  filtersBound,       \* bindFilters ran
  scrollBound,        \* initParallax ran: the scroll listener is bound
  viewport,           \* bounding rect of graphWrapper
  gestures,           \* drag gestures in progress, by pointer identifier
  transfer,           \* a pointer passing directly from one node to another
  callOp,             \* PureSpec: the pure function that was called, or "none"
  callNodes,          \* its nodes argument as it was before the call
  callTag,            \* its theme or tag argument
  callRet,            \* what it returned
  callArg             \* its nodes argument after the call

vars == <<phase, raw, fullNodes, graphData, simulation, activeThemeFilter,
          hoveredNodeId, layout, sims, svg, nodeEls, linkEls, errorShown,
          filtersBound, scrollBound, viewport, gestures, transfer,
          callOp, callNodes, callTag, callRet, callArg>>

appVars == <<phase, raw, fullNodes, graphData, simulation, activeThemeFilter,
             hoveredNodeId, layout, sims, svg, nodeEls, linkEls, errorShown,
             filtersBound, scrollBound, viewport, gestures, transfer>>

callVars == <<callOp, callNodes, callTag, callRet, callArg>>

NoGesture == [on |-> FALSE, subject |-> NullId, gen |-> 0]
NoTransfer == [to |-> NullId, leave |-> FALSE, enter |-> FALSE]
NoLayout == [x |-> NullNum, y |-> NullNum, fx |-> NullNum, fy |-> NullNum]

\* the script has run: listeners bound, fetch("data.json") pending
AppInit(vps, pointers) ==
  /\ phase = "boot"
  /\ raw = <<>>
  /\ fullNodes = <<>>
  /\ graphData = [nodes |-> <<>>, links |-> <<>>]
  /\ simulation = 0
  /\ activeThemeFilter = EmptyStr
  /\ hoveredNodeId = NullId
  /\ layout = <<>>
  /\ sims = <<>>
  /\ svg = [width |-> NullNum, height |-> NullNum, container |-> FALSE, drift |-> NullNum]
  /\ nodeEls = <<>>
  /\ linkEls = <<>>
  /\ errorShown = FALSE
  /\ filtersBound = FALSE
  /\ scrollBound = FALSE
  /\ viewport \in vps
  /\ gestures = [t \in 1..pointers |-> NoGesture]
  /\ transfer = NoTransfer

NoCall ==
  /\ callOp = "none"
  /\ callNodes = <<>>
  /\ callTag = EmptyStr
  /\ callRet = <<>>
  /\ callArg = <<>>

Init == AppInit(Viewports, MaxDrags) /\ NoCall

\* -------------------------------------------------------------------------
\* D3 dimensions
\* -------------------------------------------------------------------------
getDimensions ==
  [width  |-> IF viewport.width # 0 THEN viewport.width ELSE 1200,
   height |-> IF viewport.height > 800 THEN viewport.height ELSE 800]

getDimensionsOf(vp) ==
  [width  |-> IF vp.width # 0 THEN vp.width ELSE 1200,
   height |-> IF vp.height > 800 THEN vp.height ELSE 800]

\* d3.forceCenter(width / 2, height / 2)
forceCenter(dims) == [x |-> dims.width \div 2, y |-> dims.height \div 2]

\* -------------------------------------------------------------------------
\* d3-force: what forceSimulation(nodes) and forceLink(links) do to the
\* objects handed to them
\* -------------------------------------------------------------------------
\* the seed position of the node at index i (1-based) of the nodes array
SeedPoint(i) == IF i % 2 = 1 THEN [x |-> 0, y |-> 1] ELSE [x |-> 1, y |-> 0]

IndexOfId(nodes, id) == CHOOSE i \in DOMAIN nodes : nodes[i].id = id
HasId(nodes, id) == \E i \in DOMAIN nodes : nodes[i].id = id

\* initializeNodes: a pinned node is put on its pin, a node without a
\* position is seeded by its index, others keep their position
\* every node seeded afresh by its index
MutInitializeReseeds(l, i) == [l EXCEPT !.x = SeedPoint(i).x, !.y = SeedPoint(i).y]

initializeNode(l, i) ==
  LET x1 == IF l.fx # NullNum THEN l.fx ELSE l.x
      y1 == IF l.fy # NullNum THEN l.fy ELSE l.y
  IN  IF x1 = NullNum \/ y1 = NullNum
      THEN [l EXCEPT !.x = SeedPoint(i).x, !.y = SeedPoint(i).y]
      ELSE [l EXCEPT !.x = x1, !.y = y1]

initializeNodes(lay, nodes) ==
  [id \in DOMAIN lay |->
     IF HasId(nodes, id) THEN initializeNode(lay[id], IndexOfId(nodes, id)) ELSE lay[id]]

\* forceLink(links).id(d => d.id): source and target are replaced, in the
\* link objects themselves, by the node objects with these ids
bindLinks(links, nodes) ==
  [i \in DOMAIN links |->
     [source |-> ObjEnd(nodes[IndexOfId(nodes, links[i].source.id)]),
      target |-> ObjEnd(nodes[IndexOfId(nodes, links[i].target.id)])]]

\* typeof l.source === "object" ? l.source.id : l.source
EndId(end) == IF end.obj THEN end.node.id ELSE end.id

\* the temperatures the model tells apart: 1, 0.3 and below alphaMin
AlphaLevels == {0, alphaDrag, alphaStart}

\* alpha += (alphaTarget - alpha) * alphaDecay, on AlphaLevels
decayAlpha(alpha, target) ==
  IF alpha > target
  THEN CHOOSE a \in AlphaLevels :
         /\ a < alpha /\ a >= target
         /\ \A b \in AlphaLevels : (b < alpha /\ b >= target) => b <= a
  ELSE target

\* -------------------------------------------------------------------------
\* Render: SVG, links, nodes
\* -------------------------------------------------------------------------
\* a g.node as joined: no class, no opacity style and no transform yet, so
\* it is drawn at opacity 1 and scale 1
newNodeEl(d) ==
  [d |-> d, hovered |-> FALSE, connected |-> FALSE, dragging |-> FALSE,
   opacity |-> fullOpacity, scale |-> unitScale, tx |-> NullNum, ty |-> NullNum]

\* a line.link as joined
newLinkEl ==
  [hovered |-> FALSE, dimmed |-> FALSE, stroke |-> lineColor,
   x1 |-> NullNum, y1 |-> NullNum, x2 |-> NullNum, y2 |-> NullNum]

\* what initGraph(nodes, links) leaves behind: the resized svg, the new
\* elements (the old container is removed), the new simulation and the
\* node objects as d3 initialised them
initGraph(nodes, links) ==
  LET dims == getDimensions
  IN  [svg     |-> [width |-> dims.width, height |-> dims.height, container |-> TRUE,
                    drift |-> NullNum],
       nodeEls |-> [i \in DOMAIN nodes |-> newNodeEl(nodes[i])],
       linkEls |-> [i \in DOMAIN links |-> newLinkEl],
       sim     |-> [nodes |-> nodes, links |-> bindLinks(links, nodes),
                    running |-> TRUE, alpha |-> alphaStart, alphaTarget |-> 0,
                    center |-> forceCenter(dims)],
       layout  |-> initializeNodes(layout, nodes)]

\* -------------------------------------------------------------------------
\* Hover: scale and dim
\* -------------------------------------------------------------------------
\* the ids collected into connectedIds
connectedIds(nodeId, links) ==
  IF TruthyId(nodeId)
  THEN {EndId(links[i].target) : i \in {k \in DOMAIN links : EndId(links[k].source) = nodeId}}
       \cup {EndId(links[i].source) : i \in {k \in DOMAIN links : EndId(links[k].target) = nodeId}}
  ELSE {}

\* the each() over .node
MutHoverNodeNoDim(el, nodeId, connected) ==
  IF ~TruthyId(nodeId)
  THEN [el EXCEPT !.hovered = FALSE, !.connected = FALSE,
                  !.opacity = fullOpacity, !.scale = unitScale]
  ELSE IF el.d.id = nodeId
  THEN [el EXCEPT !.hovered = TRUE, !.connected = FALSE,
                  !.opacity = fullOpacity, !.scale = hoverScale]
  ELSE [el EXCEPT !.hovered = FALSE, !.connected = TRUE,
                  !.opacity = fullOpacity, !.scale = connectedScale]

\* the scale written to the transform of the g element, where the tick
\* listener keeps the translation
MutHoverScalesGroup(el, nodeId, connected) ==
  [el EXCEPT !.hovered = TruthyId(nodeId) /\ el.d.id = nodeId,
             !.connected = TruthyId(nodeId) /\ el.d.id \in connected,
             !.tx = NullNum, !.ty = NullNum]

hoverNodeEl(el, nodeId, connected) ==
  IF ~TruthyId(nodeId)
  THEN [el EXCEPT !.hovered = FALSE, !.connected = FALSE,
                  !.opacity = fullOpacity, !.scale = unitScale]
  ELSE IF el.d.id = nodeId
  THEN [el EXCEPT !.hovered = TRUE, !.connected = FALSE,
                  !.opacity = fullOpacity, !.scale = hoverScale]
  ELSE IF el.d.id \in connected
  THEN [el EXCEPT !.hovered = FALSE, !.connected = TRUE,
                  !.opacity = fullOpacity, !.scale = connectedScale]
  ELSE [el EXCEPT !.hovered = FALSE, !.connected = FALSE,
                  !.opacity = unrelatedOpacity, !.scale = unitScale]

\* endpoints compared with nodeId as they are, without the typeof test: a
\* node object never equals an id
MutHoverLinkIdsOnly(el, d, nodeId) ==
  LET sid == IF d.source.obj THEN NullId ELSE d.source.id
      tid == IF d.target.obj THEN NullId ELSE d.target.id
      isHovered == TruthyId(nodeId) /\ (sid = nodeId \/ tid = nodeId)
      isDimmed  == TruthyId(nodeId) /\ sid # nodeId /\ tid # nodeId
  IN  [el EXCEPT !.hovered = isHovered, !.dimmed = isDimmed,
                 !.stroke = IF isHovered THEN lineColorHover ELSE lineColor]

\* the each() over .link; d is the link object the element is bound to
hoverLinkEl(el, d, nodeId) ==
  LET sid == EndId(d.source)
      tid == EndId(d.target)
      isHovered == TruthyId(nodeId) /\ (sid = nodeId \/ tid = nodeId)
      isDimmed  == TruthyId(nodeId) /\ sid # nodeId /\ tid # nodeId
  IN  [el EXCEPT !.hovered = isHovered, !.dimmed = isDimmed,
                 !.stroke = IF isHovered THEN lineColorHover ELSE lineColor]

\* setHover(nodeId): the elements it leaves behind; the link elements are
\* bound to the link objects of the current simulation
setHoverNodeEls(nodeId) ==
  IF Len(graphData.nodes) = 0 THEN nodeEls
  ELSE [i \in DOMAIN nodeEls |->
          hoverNodeEl(nodeEls[i], nodeId, connectedIds(nodeId, graphData.links))]

setHoverLinkEls(nodeId) ==
  IF Len(graphData.nodes) = 0 THEN linkEls
  ELSE [i \in DOMAIN linkEls |->
          hoverLinkEl(linkEls[i], sims[simulation].links[i], nodeId)]

setHover(nodeId) ==
  /\ hoveredNodeId' = nodeId
  /\ nodeEls' = setHoverNodeEls(nodeId)
  /\ linkEls' = setHoverLinkEls(nodeId)

\* simulation.stop() on the previous simulation
MutNoStop(ss, cur) == ss

stopSimulation(ss, cur) ==
  IF cur # 0 THEN [ss EXCEPT ![cur].running = FALSE] ELSE ss

\* the simulations that can still act once `simulation` is reassigned, and
\* the new one under the next number
replaceSimulation(ss, new) ==
  LET live == {s \in DOMAIN ss : ss[s].running}
  IN  [s \in live \cup {simulation + 1} |-> IF s = simulation + 1 THEN new ELSE ss[s]]

\* -------------------------------------------------------------------------
\* Boot
\* -------------------------------------------------------------------------
\* loadData() resolved with the document doc (its raw.nodes); init() runs to
\* its end, with the window scrolled to y when initParallax calls onScroll()
LoadOk(doc, y) ==
  /\ phase = "boot"
  /\ LET nodes == MapNormalise(doc)
         links == buildLinks(nodes)
         full  == sortNodesByTag(nodes, EmptyStr).ret
         g     == [initGraph(full, links) EXCEPT
                     !.layout = initializeNodes([id \in {nodes[i].id : i \in DOMAIN nodes} |-> NoLayout], full)]
     IN  /\ raw' = doc
         /\ fullNodes' = full
         /\ svg' = [g.svg EXCEPT !.drift = parallaxDrift(y)]
         /\ nodeEls' = g.nodeEls
         /\ linkEls' = g.linkEls
         /\ layout' = g.layout
         /\ sims' = replaceSimulation(sims, g.sim)
         /\ simulation' = simulation + 1
         /\ graphData' = [nodes |-> full, links |-> g.sim.links]
  /\ filtersBound' = TRUE
  /\ scrollBound' = TRUE
  /\ phase' = "ready"
  /\ UNCHANGED <<activeThemeFilter, hoveredNodeId, errorShown, viewport, gestures, transfer>>
  /\ UNCHANGED callVars

\* a failure that is logged only
MutLoadFailSilent ==
  /\ phase = "boot"
  /\ phase' = "failed"
  /\ UNCHANGED <<raw, fullNodes, graphData, simulation, activeThemeFilter, hoveredNodeId,
                 layout, sims, svg, nodeEls, linkEls, errorShown, filtersBound, scrollBound,
                 viewport, gestures, transfer>>
  /\ UNCHANGED callVars

\* fetch failed, res.ok was false or res.json() rejected: the catch handler
LoadFail ==
  /\ phase = "boot"
  /\ phase' = "failed"
  /\ errorShown' = TRUE
  /\ UNCHANGED <<raw, fullNodes, graphData, simulation, activeThemeFilter, hoveredNodeId,
                 layout, sims, svg, nodeEls, linkEls, filtersBound, scrollBound, viewport,
                 gestures, transfer>>
  /\ UNCHANGED callVars

\* -------------------------------------------------------------------------
\* Theme filter + sort by tag
\* -------------------------------------------------------------------------
\* the filtered, sorted nodes and their links; full is fullNodes after the
\* calls (applyThemeFilter hands fullNodes itself to sortNodesByTag when no
\* theme is given)
MutProjectUnfiltered(full, theme) ==
  LET sorted == sortNodesByTag(full, theme)
  IN  [nodes |-> sorted.ret,
       links |-> buildLinks(sorted.ret),
       full  |-> sorted.arg]

projectFilter(full, theme) ==
  LET filtered == applyThemeFilter(full, theme)
      sorted   == sortNodesByTag(filtered.ret, theme)
  IN  [nodes |-> sorted.ret,
       links |-> buildLinks(sorted.ret),
       full  |-> IF filtered.same THEN sorted.arg ELSE full]

\* a click on the filter button with data-theme = theme
rebuildForFilter(theme) ==
  /\ phase = "ready"
  /\ filtersBound
  /\ simulation < MaxSims
  /\ activeThemeFilter' = theme
  /\ LET p == projectFilter(fullNodes, theme)
         g == initGraph(p.nodes, p.links)
     IN  /\ fullNodes' = p.full
         /\ svg' = g.svg
         /\ nodeEls' = g.nodeEls
         /\ linkEls' = g.linkEls
         /\ layout' = g.layout
         /\ sims' = replaceSimulation(stopSimulation(sims, simulation), g.sim)
         /\ simulation' = simulation + 1
         /\ graphData' = [nodes |-> p.nodes, links |-> g.sim.links]
  \* the elements a pending pointer event was bound for are gone
  /\ transfer' = NoTransfer
  /\ UNCHANGED <<phase, raw, hoveredNodeId, errorShown, filtersBound, scrollBound, viewport,
                 gestures>>
  /\ UNCHANGED callVars

\* -------------------------------------------------------------------------
\* Pointer events on the node elements
\* -------------------------------------------------------------------------
ElIds == {nodeEls[i].d.id : i \in DOMAIN nodeEls}

hoverFrame ==
  /\ UNCHANGED <<phase, raw, fullNodes, graphData, simulation, activeThemeFilter, layout,
                 sims, svg, errorShown, filtersBound, scrollBound, viewport, gestures>>
  /\ UNCHANGED callVars

InTransfer == transfer.to # NullId /\ ~(transfer.leave /\ transfer.enter)

\* mouseenter on the element of node n
PointerEnter(n) ==
  /\ n \in ElIds
  /\ ~InTransfer
  /\ setHover(n)
  /\ transfer' = NoTransfer
  /\ hoverFrame

\* mouseleave on a node element
PointerLeave ==
  /\ ElIds # {}
  /\ ~InTransfer
  /\ setHover(NullId)
  /\ transfer' = NoTransfer
  /\ hoverFrame

\* the pointer passes from the hovered node n straight onto node m: a
\* mouseleave of n and a mouseenter of m are due
PointerTransfer(n, m) ==
  /\ ~InTransfer
  /\ hoveredNodeId = n
  /\ n \in ElIds /\ m \in ElIds /\ n # m
  /\ transfer' = [to |-> m, leave |-> FALSE, enter |-> FALSE]
  /\ UNCHANGED <<hoveredNodeId, nodeEls, linkEls>>
  /\ hoverFrame

\* the mouseleave of a transfer is handled
TransferLeave ==
  /\ InTransfer /\ ~transfer.leave
  /\ setHover(NullId)
  /\ transfer' = [transfer EXCEPT !.leave = TRUE]
  /\ hoverFrame

\* the mouseenter of a transfer is handled
TransferEnter ==
  /\ InTransfer /\ ~transfer.enter
  /\ setHover(transfer.to)
  /\ transfer' = [transfer EXCEPT !.enter = TRUE]
  /\ hoverFrame

\* -------------------------------------------------------------------------
\* Drag
\* -------------------------------------------------------------------------
\* Each initGraph makes its own d3.drag(); event.active counts the other
\* gestures in progress on that drag behaviour.  A gesture goes on after the
\* elements it started on were removed (d3-drag listens on the window).
\*
\* d3.select(event.sourceEvent.target) is a d3 selection, and a d3 selection
\* has no method closest (select, selectAll, selectChild, ..., classed, ...):
\* .closest("g") throws a TypeError in dragStarted and in dragEnded, so the
\* statements after it are never reached.  d3-drag has done its bookkeeping
\* (gestures, active) before it calls the listener.
layoutFrame ==
  /\ UNCHANGED <<phase, raw, fullNodes, graphData, simulation, activeThemeFilter,
                 hoveredNodeId, svg, linkEls, errorShown, filtersBound, scrollBound, viewport,
                 transfer>>
  /\ UNCHANGED callVars

\* the gestures in progress on the drag behaviour gen, other than gesture t
activeOthers(t, gen) ==
  Cardinality({u \in DOMAIN gestures : u # t /\ gestures[u].on /\ gestures[u].gen = gen})

\* dragStarted(event, d), as far as it gets
dragStartedSims(ss, active) ==
  IF active = 0
  THEN [ss EXCEPT ![simulation].alphaTarget = alphaDrag, ![simulation].running = TRUE]
  ELSE ss

DragStart(t, d) ==
  /\ ~gestures[t].on
  /\ d \in ElIds
  /\ sims' = dragStartedSims(sims, activeOthers(t, simulation))
  \* TypeError at line 180: no class "dragging", d.fx and d.fy not assigned
  /\ gestures' = [gestures EXCEPT ![t] = [on |-> TRUE, subject |-> d, gen |-> simulation]]
  /\ UNCHANGED <<layout, nodeEls>>
  /\ layoutFrame

\* dragged(event, d); pt is (event.x, event.y)
draggedNode(l, pt) == [l EXCEPT !.fx = pt.x, !.fy = pt.y]

DragMove(t, pt) ==
  /\ gestures[t].on
  /\ layout' = [layout EXCEPT ![gestures[t].subject] = draggedNode(@, pt)]
  /\ UNCHANGED <<sims, gestures, nodeEls>>
  /\ layoutFrame

\* dragEnded(event, d), as far as it gets
dragEndedSims(ss, active) ==
  IF active = 0 THEN [ss EXCEPT ![simulation].alphaTarget = 0] ELSE ss

DragEnd(t) ==
  /\ gestures[t].on
  /\ sims' = dragEndedSims(sims, activeOthers(t, gestures[t].gen))
  \* TypeError at line 192: d.fx and d.fy are not cleared
  /\ gestures' = [gestures EXCEPT ![t] = NoGesture]
  /\ UNCHANGED <<layout, nodeEls>>
  /\ layoutFrame

\* -------------------------------------------------------------------------
\* The timer of a simulation: one step of d3-force and the tick listener
\* -------------------------------------------------------------------------
SimIds(s) == {sims[s].nodes[i].id : i \in DOMAIN sims[s].nodes}

\* a pinned coordinate is put on the pin, a free one goes where the forces
\* take it (to)
tickNode(l, to) ==
  [l EXCEPT !.x = IF l.fx # NullNum THEN l.fx ELSE to.x,
            !.y = IF l.fy # NullNum THEN l.fy ELSE to.y]

\* the tick listener of the current simulation: it writes the elements made
\* by the same initGraph
tickNodeEls(els, lay) ==
  [i \in DOMAIN els |-> [els[i] EXCEPT !.tx = lay[els[i].d.id].x, !.ty = lay[els[i].d.id].y]]

tickLinkEls(els, links, lay) ==
  [i \in DOMAIN els |->
     [els[i] EXCEPT !.x1 = lay[EndId(links[i].source)].x, !.y1 = lay[EndId(links[i].source)].y,
                    !.x2 = lay[EndId(links[i].target)].x, !.y2 = lay[EndId(links[i].target)].y]]

Tick(s) ==
  /\ s \in DOMAIN sims
  /\ sims[s].running
  /\ \E to \in [SimIds(s) -> Points] :
       layout' = [id \in DOMAIN layout |->
                    IF id \in SimIds(s) THEN tickNode(layout[id], to[id]) ELSE layout[id]]
  /\ LET a == decayAlpha(sims[s].alpha, sims[s].alphaTarget)
     IN  \* below alphaMin the timer stops
         sims' = [sims EXCEPT ![s].alpha = a, ![s].running = (a # 0)]
  /\ IF s = simulation
     THEN /\ nodeEls' = tickNodeEls(nodeEls, layout')
          /\ linkEls' = tickLinkEls(linkEls, sims[s].links, layout')
     ELSE UNCHANGED <<nodeEls, linkEls>>
  /\ UNCHANGED <<phase, raw, fullNodes, graphData, simulation, activeThemeFilter,
                 hoveredNodeId, svg, errorShown, filtersBound, scrollBound, viewport, gestures,
                 transfer>>
  /\ UNCHANGED callVars

\* -------------------------------------------------------------------------
\* Resize
\* -------------------------------------------------------------------------
MutResizeRebuild(ss, dims) ==
  IF simulation # 0
  THEN [ss EXCEPT ![simulation].center = forceCenter(dims),
                  ![simulation].alpha = alphaStart,
                  ![simulation].alphaTarget = alphaResize,
                  ![simulation].running = TRUE]
  ELSE ss

onResizeSims(ss, dims) ==
  IF simulation # 0
  THEN [ss EXCEPT ![simulation].center = forceCenter(dims),
                  ![simulation].alpha = alphaResize,
                  ![simulation].running = TRUE]
  ELSE ss

\* the window was resized and the wrapper now measures vp
onResize(vp) ==
  /\ viewport' = vp
  /\ LET dims == getDimensionsOf(vp)
     IN  /\ svg' = [svg EXCEPT !.width = dims.width, !.height = dims.height]
         /\ sims' = onResizeSims(sims, dims)
  /\ UNCHANGED <<phase, raw, fullNodes, graphData, simulation, activeThemeFilter,
                 hoveredNodeId, layout, nodeEls, linkEls, errorShown, filtersBound,
                 scrollBound, gestures, transfer>>
  /\ UNCHANGED callVars

\* -------------------------------------------------------------------------
\* Parallax on scroll
\* -------------------------------------------------------------------------
\* onScroll with window.scrollY = y, once initParallax has bound it: the
\* container, when there is one, is translated by the drift
onScroll(y) ==
  /\ scrollBound
  /\ svg' = IF svg.container THEN [svg EXCEPT !.drift = parallaxDrift(y)] ELSE svg
  /\ UNCHANGED <<phase, raw, fullNodes, graphData, simulation, activeThemeFilter,
                 hoveredNodeId, layout, sims, nodeEls, linkEls, errorShown, filtersBound,
                 scrollBound, viewport, gestures, transfer>>
  /\ UNCHANGED callVars

\* -------------------------------------------------------------------------
\* The pure functions on their own: buildLinks, applyThemeFilter and
\* sortNodesByTag called once on a list of loaded nodes
\* -------------------------------------------------------------------------
\* what an entry of data.json may hold besides its id
RawShapes ==
  [name   : {EmptyStr, <<107>>},
   themes : {Omitted, Str(<<120>>), Arr(<< <<120>> >>), Arr(<< <<121>> >>),
             Arr(<< <<120>>, <<121>> >>)},
   moods  : {Omitted, Arr(<< <<109>> >>)}]

RawLists == UNION {[1..n -> RawShapes] : n \in 0..MaxItems}

RawOf(f) ==
  [i \in DOMAIN f |->
     [id |-> IdOf(i), name |-> f[i].name, themes |-> f[i].themes, moods |-> f[i].moods]]

CallTags == {EmptyStr, <<120>>, <<109>>}

PureInit ==
  /\ AppInit({[width |-> 0, height |-> 0]}, MaxDrags)
  /\ callOp = "none"
  /\ callNodes \in {MapNormalise(RawOf(f)) : f \in RawLists}
  /\ callTag \in CallTags
  /\ callRet = <<>>
  /\ callArg = callNodes

CallBuildLinks ==
  /\ callOp = "none"
  /\ callOp' = "buildLinks"
  /\ callRet' = buildLinks(callNodes)
  /\ UNCHANGED <<callNodes, callTag, callArg>>
  /\ UNCHANGED appVars

CallApplyThemeFilter ==
  /\ callOp = "none"
  /\ callOp' = "applyThemeFilter"
  /\ callRet' = applyThemeFilter(callNodes, callTag).ret
  /\ UNCHANGED <<callNodes, callTag, callArg>>
  /\ UNCHANGED appVars

CallSortNodesByTag ==
  /\ callOp = "none"
  /\ callOp' = "sortNodesByTag"
  /\ callRet' = sortNodesByTag(callNodes, callTag).ret
  /\ callArg' = sortNodesByTag(callNodes, callTag).arg
  /\ UNCHANGED <<callNodes, callTag>>
  /\ UNCHANGED appVars

PureNext ==
  \/ CallBuildLinks
  \/ CallApplyThemeFilter
  \/ CallSortNodesByTag

PureSpec == PureInit /\ [][PureNext]_vars

\* -------------------------------------------------------------------------
\* The program
\* -------------------------------------------------------------------------
\* events of the load and of the filter bar
GraphNext(docs, themes, ys) ==
  \/ \E doc \in docs, y \in ys : LoadOk(doc, y)
  \/ LoadFail
  \/ \E theme \in themes : rebuildForFilter(theme)

\* pointer events of the hover
HoverNext ==
  \/ \E n \in ElIds : PointerEnter(n)
  \/ PointerLeave
  \/ \E n \in ElIds, m \in ElIds : PointerTransfer(n, m)
  \/ TransferLeave
  \/ TransferEnter

\* drag gestures, simulation timers and window resizes
LayoutNext ==
  \/ \E t \in DOMAIN gestures, d \in ElIds : DragStart(t, d)
  \/ \E t \in DOMAIN gestures, pt \in Points : DragMove(t, pt)
  \/ \E t \in DOMAIN gestures : DragEnd(t)
  \/ \E s \in DOMAIN sims : Tick(s)
  \/ \E vp \in Viewports : onResize(vp)

\* every event, on the smallest document
Next ==
  \/ GraphNext({DocPair}, PairThemes, {0})
  \/ HoverNext
  \/ LayoutNext

Spec == Init /\ [][Next]_vars

\* load, filter and hover on every document
HoverSpecNext ==
  \/ GraphNext(Documents, FilterThemes, {0})
  \/ HoverNext

HoverSpec == Init /\ [][HoverSpecNext]_vars

\* load, filter, drag, tick and resize
LayoutSpecNext ==
  \/ GraphNext({DocPair}, PairThemes, {0})
  \/ LayoutNext

LayoutSpec == Init /\ [][LayoutSpecNext]_vars

\* the same events with several pointers (mouse and touches), the timer of
\* a running simulation firing again and again until the simulation stops
\* it
TouchInit == AppInit({[width |-> 0, height |-> 0]}, MaxPointers) /\ NoCall

TouchSpec ==
  /\ TouchInit
  /\ [][LayoutSpecNext]_vars
  /\ WF_vars(\E s \in DOMAIN sims : Tick(s))

\* load, filter, resize and scroll on every document
PageSpecNext ==
  \/ GraphNext(Documents, FilterThemes, ScrollYs)
  \/ \E vp \in Viewports : onResize(vp)
  \/ \E y \in ScrollYs : onScroll(y)

PageSpec == Init /\ [][PageSpecNext]_vars

\* -------------------------------------------------------------------------
\* Properties
\* -------------------------------------------------------------------------
Range(seq) == {seq[i] : i \in DOMAIN seq}

IdsOf(nodes) == {nodes[i].id : i \in DOMAIN nodes}

\* the two tag sets of a and b intersect
ShareTags(a, b) ==
  \/ Range(a.themes) \cap Range(b.themes) # {}
  \/ Range(a.moods) \cap Range(b.moods) # {}

\* the unordered pairs of ids a list of links joins
LinkPairs(links) == {{EndId(links[i].source), EndId(links[i].target)} : i \in DOMAIN links}

Reverse(seq) == [i \in DOMAIN seq |-> seq[Len(seq) + 1 - i]]

\* C1: for a list of items with unique ids and any two distinct items a and
\* b of it, buildLinks emits an edge between a and b exactly when their
\* themes or their moods share a tag; the relation does not depend on which
\* of the two comes first, no edge has source = target, and p{x} q{x,y} r{y}
\* s{z} gives exactly the edges p-q and q-r.
C1_EdgesIffShared ==
  /\ callOp = "buildLinks" =>
       /\ \A i \in DOMAIN callNodes, j \in DOMAIN callNodes :
            i # j => (({callNodes[i].id, callNodes[j].id} \in LinkPairs(callRet))
                        <=> ShareTags(callNodes[i], callNodes[j]))
       /\ \A k \in DOMAIN callRet :
            /\ callRet[k].source.id # callRet[k].target.id
            /\ {callRet[k].source.id, callRet[k].target.id} \subseteq IdsOf(callNodes)
       /\ LinkPairs(buildLinks(Reverse(callNodes))) = LinkPairs(callRet)
  /\ LinkPairs(buildLinks(MapNormalise(DocScenario))) = {{IdOf(1), IdOf(2)}, {IdOf(2), IdOf(3)}}

\* buildLinks ran on three items of which two are linked by a mood alone and
\* two are not linked
C1_Witness ==
  /\ callOp = "buildLinks"
  /\ Len(callNodes) = 3
  /\ \E i \in DOMAIN callNodes, j \in DOMAIN callNodes :
       /\ i # j
       /\ Range(callNodes[i].themes) \cap Range(callNodes[j].themes) = {}
       /\ {callNodes[i].id, callNodes[j].id} \in LinkPairs(callRet)
  /\ \E i \in DOMAIN callNodes, j \in DOMAIN callNodes :
       i # j /\ {callNodes[i].id, callNodes[j].id} \notin LinkPairs(callRet)

\* the name that orders an item: its displayName, or with orById its id
\* when the displayName is empty
OrderName(n, orById) == IF orById /\ ~Truthy(n.name) THEN n.id ELSE n.name

HasTag(n) == Includes(n.themes, callTag)

\* what C3 says of a call of sortNodesByTag, the items ordered by
\* OrderName(n, orById)
OrderingPolicy(orById) ==
  callOp = "sortNodesByTag" =>
    /\ callArg = callNodes
    /\ Len(callRet) = Len(callNodes) /\ IdsOf(callRet) = IdsOf(callNodes)
    /\ sortNodesByTag(callRet, callTag).ret = callRet
    /\ ~Truthy(callTag) =>
         \A i \in DOMAIN callRet, j \in DOMAIN callRet :
           i < j => localeCompare(OrderName(callRet[i], orById),
                                  OrderName(callRet[j], orById)) <= 0
    /\ Truthy(callTag) =>
         \A i \in DOMAIN callRet, j \in DOMAIN callRet :
           /\ (HasTag(callRet[i]) /\ ~HasTag(callRet[j])) => i < j
           /\ (i < j /\ HasTag(callRet[i]) = HasTag(callRet[j]))
                => localeCompare(OrderName(callRet[i], orById),
                                 OrderName(callRet[j], orById)) <= 0

\* C3 as stated: sortNodesByTag returns a new sequence and leaves its input
\* unchanged, is idempotent, sorts ascending by displayName without a tag,
\* and with a tag puts the items with the tag first, each bucket ascending
\* by displayName.
C3_Original == OrderingPolicy(FALSE)

\* C3 amended: the same, with an item whose displayName is empty ordered by
\* its id in place of the displayName.
C3_OrderingPolicy == OrderingPolicy(TRUE)

\* sortNodesByTag ran with a tag on three items, some with the tag and some
\* without, one of them with an empty displayName, and reordered them
C3_Witness ==
  /\ callOp = "sortNodesByTag"
  /\ Truthy(callTag)
  /\ Len(callNodes) = 3
  /\ \E i \in DOMAIN callNodes : HasTag(callNodes[i])
  /\ \E i \in DOMAIN callNodes : ~HasTag(callNodes[i]) /\ ~Truthy(callNodes[i].name)
  /\ callRet # callNodes

\* the items of the full collection a filter tag selects
Selected(tag) ==
  IF Truthy(tag)
  THEN {n \in Range(fullNodes) : tag \in Range(n.themes)}
  ELSE Range(fullNodes)

IdSeq(nodes) == [i \in DOMAIN nodes |-> nodes[i].id]

\* C2: after rebuildForFilter with a non-empty tag the active node list
\* holds exactly the items of the full collection whose themes contain the
\* tag (moods are not matched), each once; with the empty tag it holds every
\* item once.  Filtering p{x} q{x,y} r{y} s{z} by y gives the nodes [q, r]
\* and the edge q-r.
C2_FilterProjection ==
  phase = "ready" =>
    /\ Range(graphData.nodes) = Selected(activeThemeFilter)
    /\ \A i \in DOMAIN graphData.nodes, j \in DOMAIN graphData.nodes :
         i # j => graphData.nodes[i].id # graphData.nodes[j].id
    /\ sims[simulation].nodes = graphData.nodes
    /\ [i \in DOMAIN nodeEls |-> nodeEls[i].d] = graphData.nodes
    /\ (raw = DocScenario /\ activeThemeFilter = <<121>>) =>
         /\ IdSeq(graphData.nodes) = <<IdOf(2), IdOf(3)>>
         /\ LinkPairs(graphData.links) = {{IdOf(2), IdOf(3)}}

\* the filter m was clicked on a document where q has the mood m but not
\* the theme m: q is not among the two active nodes
C2_Witness ==
  /\ phase = "ready"
  /\ raw = DocThemeMood
  /\ activeThemeFilter = <<109>>
  /\ simulation > 1
  /\ Len(graphData.nodes) = 2
  /\ IdOf(2) \notin IdsOf(graphData.nodes)

\* the ids one edge away from n in the active graph
Neighbours(n) ==
  {m \in IdsOf(graphData.nodes) : m # n /\ {n, m} \in LinkPairs(graphData.links)}

\* the node elements show the classification derived for the hovered node n
ClassifiedFor(n) ==
  /\ ElIds = IdsOf(graphData.nodes)
  /\ \A i \in DOMAIN nodeEls :
       LET el == nodeEls[i]
       IN  IF el.d.id = n
           THEN el.hovered /\ ~el.connected /\ el.opacity = fullOpacity /\ el.scale = hoverScale
           ELSE IF el.d.id \in Neighbours(n)
           THEN ~el.hovered /\ el.connected /\ el.opacity = fullOpacity
                /\ el.scale = connectedScale
           ELSE ~el.hovered /\ ~el.connected /\ el.opacity = unrelatedOpacity
                /\ el.opacity < fullOpacity /\ el.scale = unitScale

NodesNeutral(els) ==
  \A i \in DOMAIN els :
    ~els[i].hovered /\ ~els[i].connected /\ els[i].opacity = fullOpacity
    /\ els[i].scale = unitScale

LinksNeutral(els) ==
  \A i \in DOMAIN els : ~els[i].hovered /\ ~els[i].dimmed /\ els[i].stroke = lineColor

\* a step that is setHover(n) for a node n of the active graph
SetHoverOf(n) == PointerEnter(n) \/ (TransferEnter /\ transfer.to = n)

\* a step that is setHover(null)
SetHoverNull == PointerLeave \/ TransferLeave

ElOf(els, id) == els[CHOOSE i \in DOMAIN els : els[i].d.id = id]

\* C4: setHover(n) for a node n of the active graph collects exactly the ids
\* one edge away from n, and leaves n as self (opacity 1, hoverScale), these
\* ids as connected (opacity 1, connectedScale) and every other node as
\* other (reduced opacity, scale 1); setHover(null) leaves every node at
\* opacity 1 and scale 1.  Hovering q in p{x} q{x,y} r{y} s{z} gives q
\* self, p and r connected, s other.
C4_HoverClassification ==
  [][ /\ \A n \in ElIds :
           SetHoverOf(n) =>
             /\ connectedIds(n, graphData.links) = Neighbours(n)
             /\ hoveredNodeId' = n
             /\ ClassifiedFor(n)'
             /\ (raw = DocScenario /\ activeThemeFilter = EmptyStr /\ n = IdOf(2)) =>
                  /\ ElOf(nodeEls', IdOf(2)).scale = hoverScale
                  /\ ElOf(nodeEls', IdOf(1)).connected
                  /\ ElOf(nodeEls', IdOf(3)).connected
                  /\ ~ElOf(nodeEls', IdOf(4)).connected
                  /\ ElOf(nodeEls', IdOf(4)).opacity = unrelatedOpacity
      /\ SetHoverNull => (hoveredNodeId' = NullId /\ NodesNeutral(nodeEls'))
    ]_vars

\* q is hovered in the unfiltered graph of p{x} q{x,y} r{y} s{z}: q is self,
\* p and r are connected, s is dimmed
C4_Witness ==
  /\ raw = DocScenario
  /\ activeThemeFilter = EmptyStr
  /\ hoveredNodeId = IdOf(2)
  /\ ClassifiedFor(IdOf(2))
  /\ Neighbours(IdOf(2)) = {IdOf(1), IdOf(3)}
  /\ ElOf(nodeEls, IdOf(4)).opacity = unrelatedOpacity

\* C5: after both events of a direct transfer from n to m were handled, in
\* either order, the hover state is Hovering(m) and the classification is
\* the one derived for m.
C5_Original ==
  (transfer.to # NullId /\ transfer.leave /\ transfer.enter) =>
    /\ hoveredNodeId = transfer.to
    /\ ClassifiedFor(transfer.to)

\* C6: whenever the stored hover id is not the id of an active node, the
\* active graph shows the Idle classification (every node at opacity 1 and
\* scale 1, every edge with the neutral stroke), and deriving the
\* classification again from the graph and the hover id gives the same.
C6_Original ==
  (phase = "ready" /\ hoveredNodeId \notin IdsOf(graphData.nodes)) =>
    /\ NodesNeutral(nodeEls)
    /\ LinksNeutral(linkEls)
    /\ NodesNeutral(setHoverNodeEls(hoveredNodeId))
    /\ LinksNeutral(setHoverLinkEls(hoveredNodeId))

\* the nodes with a pinned position
Pinned == {id \in DOMAIN layout : layout[id].fx # NullNum \/ layout[id].fy # NullNum}

NoDragInProgress == \A t \in DOMAIN gestures : ~gestures[t].on

\* C7: once the DragEnd of a drag on node d has been handled, d is unpinned
\* (fx and fy null) and its x, y are the last dragged position: the
\* position of the last DragMove, or where it was when there was none.
C7_Original ==
  [][ \A t \in DOMAIN gestures :
        DragEnd(t) =>
          LET d == gestures[t].subject
          IN  /\ layout'[d].fx = NullNum
              /\ layout'[d].fy = NullNum
              /\ layout'[d].x = IF layout[d].fx # NullNum THEN layout[d].fx ELSE layout[d].x
              /\ layout'[d].y = IF layout[d].fy # NullNum THEN layout[d].fy ELSE layout[d].y
    ]_vars

\* C8: at most one node of the full collection is pinned, no node is pinned
\* when no drag is in progress, and after a drag-start that finds another
\* drag in progress the node pinned is the one of that drag-start.
C8_Original ==
  /\ [](/\ Cardinality(Pinned) <= 1
        /\ NoDragInProgress => Pinned = {})
  /\ [][ \A t \in DOMAIN gestures, d \in ElIds :
           (DragStart(t, d) /\ ~NoDragInProgress) => Pinned' = {d}
       ]_vars

\* C9: the previous simulation is stopped before the next is constructed:
\* at most one simulation runs, and a simulation whose timer can fire is
\* the current one, bound to the active node set and to the elements on
\* the page.
C9_SingleSimulation ==
  /\ Cardinality({s \in DOMAIN sims : sims[s].running}) <= 1
  /\ \A s \in DOMAIN sims :
       sims[s].running =>
         /\ s = simulation
         /\ sims[s].nodes = graphData.nodes
         /\ IdsOf(sims[s].nodes) = ElIds

\* a filter click replaced the simulation and the new one has ticked on the
\* new elements while it is the only one running
C9_Witness ==
  /\ simulation > 1
  /\ sims[simulation].running
  /\ nodeEls # <<>>
  /\ \A i \in DOMAIN nodeEls : nodeEls[i].tx # NullNum
  /\ Len(graphData.nodes) < Len(fullNodes)

C11_LoadFailure ==
  phase = "failed" =>
    /\ errorShown
    /\ nodeEls = <<>> /\ linkEls = <<>>
    /\ ~svg.container /\ svg.drift = NullNum
    /\ simulation = 0 /\ sims = <<>>
    /\ graphData = [nodes |-> <<>>, links |-> <<>>] /\ fullNodes = <<>>
    /\ ~filtersBound /\ ~scrollBound
    /\ \A theme \in FilterThemes : ~ENABLED rebuildForFilter(theme)
    /\ \A y \in ScrollYs : ~ENABLED onScroll(y)

\* the load failed and the window was resized afterwards to a viewport other
\* than the one of the start
C11_Witness ==
  /\ phase = "failed"
  /\ errorShown
  /\ svg.width = getDimensions.width
  /\ viewport.width = 1000


\* the entry of the fetched document with this id, and the item loaded from
\* it
RawEntry(id) == raw[CHOOSE i \in DOMAIN raw : raw[i].id = id]
Loaded(id) == fullNodes[IndexOfId(fullNodes, id)]

\* C12: an item loaded with themes omitted, or not an array, is held with
\* themes = []: no non-empty filter tag selects it, the empty filter does,
\* and it has an edge to another item only when their moods intersect; and
\* likewise for moods: an item loaded without a moods array is held with
\* moods = [] and has an edge only through its themes.  The load of such a
\* document completes.
C12_OmittedTagsDefault ==
  phase = "ready" =>
    /\ IdsOf(fullNodes) = IdsOf(raw)
    /\ \A id \in IdsOf(raw) :
         /\ ~RawEntry(id).themes.isArray =>
              /\ Loaded(id).themes = <<>>
              /\ Truthy(activeThemeFilter) => id \notin IdsOf(graphData.nodes)
              /\ ~Truthy(activeThemeFilter) => id \in IdsOf(graphData.nodes)
              /\ \A m \in IdsOf(graphData.nodes) :
                   {id, m} \in LinkPairs(graphData.links) =>
                     Range(RawEntry(id).moods.arr) \cap Range(RawEntry(m).moods.arr) # {}
         /\ ~RawEntry(id).moods.isArray =>
              /\ Loaded(id).moods = <<>>
              /\ \A m \in IdsOf(graphData.nodes) :
                   {id, m} \in LinkPairs(graphData.links) =>
                     Range(RawEntry(id).themes.arr) \cap Range(RawEntry(m).themes.arr) # {}

\* the document with "themes": "x" on p was loaded and the filter x is
\* active: q alone is selected; p, named after its tags "x, m", is not
C12_Witness ==
  /\ phase = "ready"
  /\ raw = DocNotArray
  /\ activeThemeFilter = <<120>>
  /\ IdsOf(graphData.nodes) = {IdOf(2)}
  /\ Loaded(IdOf(1)).name = <<120, 44, 32, 109>>
  /\ Loaded(IdOf(1)).themes = <<>>


\* no two links of the list join the same unordered pair of items
NoDuplicatePair(links) ==
  \A k \in DOMAIN links, l \in DOMAIN links :
    k # l => {EndId(links[k].source), EndId(links[k].target)}
               # {EndId(links[l].source), EndId(links[l].target)}

\* the tags two items share, themes and moods counted apart
SharedTags(a, b) ==
  Cardinality(Range(a.themes) \cap Range(b.themes))
    + Cardinality(Range(a.moods) \cap Range(b.moods))

\* C13: the edge list buildLinks makes holds each unordered pair of items at
\* most once, however many themes and moods the pair shares, and after the
\* load and after every filter change the active edge list, the links of
\* the simulation and the line elements hold no unordered pair twice.
C13_NoDuplicateEdge ==
  phase = "ready" =>
    /\ NoDuplicatePair(buildLinks(fullNodes))
    /\ NoDuplicatePair(buildLinks(graphData.nodes))
    /\ NoDuplicatePair(graphData.links)
    /\ NoDuplicatePair(sims[simulation].links)
    /\ Len(linkEls) = Cardinality(LinkPairs(graphData.links))

\* after two filter changes the active graph holds an edge between two
\* items that share three tags
C13_Witness ==
  /\ phase = "ready"
  /\ simulation > 2
  /\ \E i \in DOMAIN graphData.nodes, j \in DOMAIN graphData.nodes :
       /\ i # j
       /\ SharedTags(graphData.nodes[i], graphData.nodes[j]) >= 3
       /\ {graphData.nodes[i].id, graphData.nodes[j].id} \in LinkPairs(graphData.links)


\* the link element shows the class and stroke of an edge touching the
\* hovered node, or those of any other edge while a node is hovered
LinkTouching(el) == el.hovered /\ ~el.dimmed /\ el.stroke = lineColorHover
LinkOther(el) == ~el.hovered /\ el.dimmed /\ el.stroke = lineColor

\* the link as buildLinks pushed it, before forceLink replaced its endpoint
\* ids by the node objects
UnboundLink(d) == [source |-> IdEnd(EndId(d.source)), target |-> IdEnd(EndId(d.target))]

\* C14: setHover(n) for an active node n leaves every active edge with an
\* endpoint n touching (highlighted stroke, not dimmed) and every other edge
\* dimmed with the neutral stroke, no edge both; setHover(null) leaves no
\* edge touching or dimmed and all strokes neutral.  The outcome is the same
\* for the link objects as buildLinks made them (endpoints are ids) and as
\* the simulation bound them (endpoints are node objects).
C14_EdgeClassification ==
  [][ /\ \A n \in ElIds :
           SetHoverOf(n) =>
             /\ DOMAIN linkEls' = DOMAIN graphData.links
             /\ \A i \in DOMAIN graphData.links :
                  /\ IF n \in {EndId(graphData.links[i].source), EndId(graphData.links[i].target)}
                     THEN LinkTouching(linkEls'[i])
                     ELSE LinkOther(linkEls'[i])
                  /\ ~(linkEls'[i].hovered /\ linkEls'[i].dimmed)
                  /\ graphData.links[i].source.obj /\ graphData.links[i].target.obj
                  /\ linkEls'[i] = hoverLinkEl(linkEls[i], UnboundLink(graphData.links[i]), n)
      /\ SetHoverNull =>
           /\ LinksNeutral(linkEls')
           /\ \A i \in DOMAIN linkEls :
                linkEls'[i] = hoverLinkEl(linkEls[i], UnboundLink(graphData.links[i]), NullId)
    ]_vars

\* p is hovered in the unfiltered graph of p{x} q{x,y} r{y} s{z}: the edge
\* p-q is touching and the edge q-r is dimmed
C14_Witness ==
  /\ raw = DocScenario
  /\ activeThemeFilter = EmptyStr
  /\ hoveredNodeId = IdOf(1)
  /\ Len(linkEls) = 2
  /\ \E i \in DOMAIN linkEls :
       LinkTouching(linkEls[i]) /\ IdOf(1) \in {EndId(graphData.links[i].source),
                                                EndId(graphData.links[i].target)}
  /\ \E i \in DOMAIN linkEls :
       LinkOther(linkEls[i]) /\ IdOf(1) \notin {EndId(graphData.links[i].source),
                                                EndId(graphData.links[i].target)}


\* C15: a DragStart of node d raises the temperature target of the
\* simulation and restarts its timer, and pins d where it is (fx = x,
\* fy = y) before any DragMove; each DragMove puts the pin of d on the
\* pointer position.
C15_Original ==
  [][ /\ \A t \in DOMAIN gestures, d \in ElIds :
           DragStart(t, d) =>
             /\ sims'[simulation].running
             /\ sims'[simulation].alphaTarget = alphaDrag
             /\ layout'[d].fx = layout[d].x
             /\ layout'[d].fy = layout[d].y
      /\ \A t \in DOMAIN gestures, pt \in Points :
           DragMove(t, pt) =>
             /\ layout'[gestures[t].subject].fx = pt.x
             /\ layout'[gestures[t].subject].fy = pt.y
    ]_vars


\* the current simulation is at rest: its target is 0, its temperature fell
\* below the threshold and its timer was stopped
Settled ==
  /\ simulation # 0
  /\ sims[simulation].alphaTarget = 0
  /\ sims[simulation].alpha = 0
  /\ ~sims[simulation].running

\* the current simulation is relaxing: its timer runs, so ticks fire
Relaxing ==
  /\ simulation # 0
  /\ sims[simulation].running
  /\ \E s \in DOMAIN sims : ENABLED Tick(s)

\* a step of a simulation timer
TickStep == \E s \in DOMAIN sims : Tick(s)

\* what C16 says of the rest: if from some point on no drag is in progress
\* and nothing happens but ticks, the simulation, when there is one, comes
\* to rest and stays Settled
SettlesWhenQuiet ==
  (<>[][TickStep]_vars /\ <>[]NoDragInProgress) => <>[](simulation # 0 => Settled)

\* C16: if from some point on no drag is in progress and nothing happens but
\* ticks, the simulation, when there is one, comes to rest and stays
\* Settled; and from Settled each of a filter change, a drag start and a
\* resize leaves the current simulation Relaxing.
C16_Original ==
  /\ SettlesWhenQuiet
  /\ [][ Settled =>
           /\ \A theme \in PairThemes : rebuildForFilter(theme) => Relaxing'
           /\ \A t \in DOMAIN gestures, d \in ElIds : DragStart(t, d) => Relaxing'
           /\ \A vp \in Viewports : onResize(vp) => Relaxing'
       ]_vars


\* a step that is a mouseenter or a mouseleave handler
HoverStep ==
  \/ \E n \in ElIds : PointerEnter(n)
  \/ PointerLeave
  \/ TransferLeave
  \/ TransferEnter

\* C17: a hover transition changes the hover id and the highlight of the
\* elements and nothing else: the active nodes and their order, the active
\* edges, the filter tag, the full collection, every node's position and
\* pin, the simulations, the drags in progress, and on the elements their
\* datum, their order and the coordinates the tick listener wrote stay as
\* they were.
C17_HoverFrame ==
  [][ HoverStep =>
        /\ UNCHANGED <<graphData, fullNodes, activeThemeFilter, layout, sims, simulation,
                       svg, gestures, phase, filtersBound, scrollBound>>
        /\ DOMAIN nodeEls' = DOMAIN nodeEls /\ DOMAIN linkEls' = DOMAIN linkEls
        /\ \A i \in DOMAIN nodeEls :
             /\ nodeEls'[i].d = nodeEls[i].d
             /\ nodeEls'[i].tx = nodeEls[i].tx /\ nodeEls'[i].ty = nodeEls[i].ty
             /\ nodeEls'[i].dragging = nodeEls[i].dragging
        /\ \A i \in DOMAIN linkEls :
             /\ linkEls'[i].x1 = linkEls[i].x1 /\ linkEls'[i].y1 = linkEls[i].y1
             /\ linkEls'[i].x2 = linkEls[i].x2 /\ linkEls'[i].y2 = linkEls[i].y2
    ]_vars

\* a node of the unfiltered graph is hovered while the simulation runs, a
\* drag is in progress, a node is pinned and the elements carry the
\* coordinates of a tick
C17_Witness ==
  /\ hoveredNodeId \in ElIds
  /\ \E i \in DOMAIN nodeEls : nodeEls[i].hovered /\ nodeEls[i].tx # NullNum
  /\ \E i \in DOMAIN linkEls : linkEls[i].hovered /\ linkEls[i].x1 # NullNum
  /\ sims[simulation].running
  /\ Pinned # {}
  /\ ~NoDragInProgress


\* C18: from the load on, whatever filters, hovers, drags, resizes and
\* ticks happened, the active node list is the ordering policy applied to
\* the items of the full collection the active filter tag selects, and the
\* active edges join exactly the pairs buildLinks yields for that list,
\* each once, so that every endpoint is the id of an active node.
C18_GraphConsistent ==
  phase = "ready" =>
    /\ graphData.nodes =
         sortNodesByTag(applyThemeFilter(fullNodes, activeThemeFilter).ret,
                        activeThemeFilter).ret
    /\ LinkPairs(graphData.links) = LinkPairs(buildLinks(graphData.nodes))
    /\ Len(graphData.links) = Len(buildLinks(graphData.nodes))
    /\ \A i \in DOMAIN graphData.links :
         /\ EndId(graphData.links[i].source) \in IdsOf(graphData.nodes)
         /\ EndId(graphData.links[i].target) \in IdsOf(graphData.nodes)

\* the filter was set and cleared again; in the unfiltered graph, which has
\* an edge, a node was dragged, a node is hovered and the simulation ticked
C18_Witness ==
  /\ phase = "ready"
  /\ simulation = 3
  /\ activeThemeFilter = EmptyStr
  /\ Len(graphData.links) = 1
  /\ Pinned # {}
  /\ hoveredNodeId \in ElIds
  /\ \E i \in DOMAIN nodeEls : nodeEls[i].tx # NullNum
  /\ fullNodes # MapNormalise(raw)


\* the full collection and the edges as init() made them from the fetched
\* document
LoadedNodes == sortNodesByTag(MapNormalise(raw), EmptyStr).ret
LoadedPairs == LinkPairs(buildLinks(MapNormalise(raw)))

\* sub holds items of full, in the order they have in full
IsSubsequence(sub, full) ==
  /\ \A i \in DOMAIN sub : HasId(full, sub[i].id) /\ full[IndexOfId(full, sub[i].id)] = sub[i]
  /\ \A i \in DOMAIN sub, j \in DOMAIN sub :
       i < j => IndexOfId(full, sub[i].id) < IndexOfId(full, sub[j].id)

\* C19: the full collection stays as the load made it (members, themes,
\* moods, order) under every filter change and hover; for every tag the
\* active node list is a subsequence of the unfiltered order and the active
\* edge set is the unfiltered edge set restricted to the pairs of selected
\* items; with the empty tag the node order and the edge set are those of
\* the load.
C19_FilterIsRestriction ==
  phase = "ready" =>
    /\ fullNodes = LoadedNodes
    /\ IsSubsequence(graphData.nodes, fullNodes)
    /\ Range(graphData.nodes) = Selected(activeThemeFilter)
    /\ LinkPairs(graphData.links)
         = {pr \in LoadedPairs : pr \subseteq IdsOf(graphData.nodes)}
    /\ ~Truthy(activeThemeFilter) =>
         /\ graphData.nodes = LoadedNodes
         /\ LinkPairs(graphData.links) = LoadedPairs

\* after the filters x and then "" on the document whose load reordered the
\* items, the unfiltered graph is back with its three nodes and three edges
C19_Witness ==
  /\ phase = "ready"
  /\ raw = DocShared
  /\ simulation = 3
  /\ activeThemeFilter = EmptyStr
  /\ fullNodes # MapNormalise(raw)
  /\ Len(graphData.nodes) = 3
  /\ Cardinality(LinkPairs(graphData.links)) = 3
  /\ hoveredNodeId # NullId


\* a step that is a filter change
FilterStep == \E theme \in PairThemes : rebuildForFilter(theme)

Positioned(l) == l.x # NullNum /\ l.y # NullNum

\* C20: a filter change leaves the layout fields of every positioned node
\* of the full collection as they were, in the active set or not: its x, y
\* and its pin fx, fy; the rebuild reseeds no positioned node and clears or
\* sets no pin.
C20_Original ==
  [][ FilterStep =>
        /\ DOMAIN layout' = DOMAIN layout /\ DOMAIN layout = IdsOf(fullNodes)
        /\ \A id \in DOMAIN layout :
             /\ layout'[id].fx = layout[id].fx /\ layout'[id].fy = layout[id].fy
             /\ Positioned(layout[id]) =>
                  layout'[id].x = layout[id].x /\ layout'[id].y = layout[id].y
    ]_vars

\* C20 amended: the same, but a pinned node of the new active set is put on
\* its pin by the rebuild (x = fx, y = fy); every other positioned node
\* keeps its x, y.
C20_LayoutSurvivesFilter ==
  [][ FilterStep =>
        /\ DOMAIN layout' = DOMAIN layout /\ DOMAIN layout = IdsOf(fullNodes)
        /\ \A id \in DOMAIN layout :
             /\ layout'[id].fx = layout[id].fx /\ layout'[id].fy = layout[id].fy
             /\ Positioned(layout[id]) =>
                  /\ layout'[id].x =
                       IF id \in IdsOf(graphData'.nodes) /\ layout[id].fx # NullNum
                       THEN layout[id].fx ELSE layout[id].x
                  /\ layout'[id].y =
                       IF id \in IdsOf(graphData'.nodes) /\ layout[id].fy # NullNum
                       THEN layout[id].fy ELSE layout[id].y
    ]_vars

\* the filter was set and cleared, so that an item left the active set and
\* came back; since the last rebuild no tick happened, and there is a pinned
\* node and a free node that is not where its index would seed it
C20_Witness ==
  /\ simulation = 3
  /\ activeThemeFilter = EmptyStr
  /\ Len(graphData.nodes) = 2
  /\ \A i \in DOMAIN nodeEls : nodeEls[i].tx = NullNum
  /\ Pinned # {}
  /\ \E i \in DOMAIN graphData.nodes :
       LET l == layout[graphData.nodes[i].id]
       IN  /\ l.fx = NullNum /\ l.fy = NullNum
           /\ <<l.x, l.y>> # <<SeedPoint(i).x, SeedPoint(i).y>>

=============================================================================
